---- MODULE Spec2Model ----
(***************************************************************************)
(* Annotation overlay and validation-error line resolver of the NaC AI     *)
(* Assistant extension (annotations.ts, the validate-and-lint command and  *)
(* the chat /validate handler of extension.ts).                            *)
(*                                                                         *)
(* JavaScript strings are modelled as sequences of one-character strings,  *)
(* so that split / trim / includes / parseInt / regex matches are computed *)
(* the way the code computes them.                                         *)
(***************************************************************************)
EXTENDS Integers, Sequences, FiniteSets, TLC

(***************************************************************************)
(* String primitives used by annotations.ts                                *)
(***************************************************************************)
Digits == <<"0", "1", "2", "3", "4", "5", "6", "7", "8", "9">>

IsDigit(c) == \E i \in 1..Len(Digits) : Digits[i] = c

DigitVal(c) == (CHOOSE i \in 1..Len(Digits) : Digits[i] = c) - 1

\* \s of the regexes and the whitespace of String.prototype.trim
IsSpace(c) == c \in {" ", "\t", "\r", "\n"}

\* number of leading characters of s that satisfy the class (digits / spaces)
RECURSIVE LeadingDigits(_)
LeadingDigits(s) ==
    IF s = <<>> \/ ~IsDigit(Head(s)) THEN 0 ELSE 1 + LeadingDigits(Tail(s))

RECURSIVE LeadingSpaces(_)
LeadingSpaces(s) ==
    IF s = <<>> \/ ~IsSpace(Head(s)) THEN 0 ELSE 1 + LeadingSpaces(Tail(s))

RECURSIVE TrailingSpaces(_)
TrailingSpaces(s) ==
    IF s = <<>> \/ ~IsSpace(s[Len(s)]) THEN 0
    ELSE 1 + TrailingSpaces(SubSeq(s, 1, Len(s) - 1))

\* String.prototype.trim
Trim(s) ==
    LET t == SubSeq(s, LeadingSpaces(s) + 1, Len(s))
    IN  SubSeq(t, 1, Len(t) - TrailingSpaces(t))

\* String.prototype.includes
Includes(s, sub) ==
    \E i \in 0..(Len(s) - Len(sub)) : SubSeq(s, i + 1, i + Len(sub)) = sub

\* String.prototype.startsWith
StartsWith(s, pre) == Len(pre) <= Len(s) /\ SubSeq(s, 1, Len(pre)) = pre

\* String.prototype.split with a one-character separator
RECURSIVE Split(_, _)
Split(s, c) ==
    IF \A i \in 1..Len(s) : s[i] # c THEN <<s>>
    ELSE LET k == CHOOSE i \in 1..Len(s) :
                      s[i] = c /\ \A j \in 1..(i - 1) : s[j] # c
         IN  <<SubSeq(s, 1, k - 1)>> \o Split(SubSeq(s, k + 1, Len(s)), c)

\* value of a string of decimal digits
RECURSIVE DecVal(_)
DecVal(ds) ==
    IF ds = <<>> THEN 0
    ELSE 10 * DecVal(SubSeq(ds, 1, Len(ds) - 1)) + DigitVal(ds[Len(ds)])

\* the NaN result of parseInt, encoded as an integer no modelled text parses to
NaN == -1000000

\* parseInt(s, 10): leading whitespace skipped, optional sign, longest digit prefix
parseInt(s) ==
    LET t    == SubSeq(s, LeadingSpaces(s) + 1, Len(s))
        neg  == t # <<>> /\ Head(t) = "-"
        u    == IF t # <<>> /\ Head(t) \in {"-", "+"} THEN Tail(t) ELSE t
        n    == LeadingDigits(u)
    IN  IF n = 0 THEN NaN
        ELSE IF neg THEN 0 - DecVal(SubSeq(u, 1, n)) ELSE DecVal(SubSeq(u, 1, n))

\* `${n}` for a natural number
RECURSIVE NumStr(_)
NumStr(n) ==
    IF n < 10 THEN <<Digits[n + 1]>>
    ELSE NumStr(n \div 10) \o <<Digits[(n % 10) + 1]>>

(***************************************************************************)
(* getVisibleCodeWithLineNumbers and yamaleAnnotationLines                 *)
(***************************************************************************)
\* the editor text as one string, every line as "<n>: <text> \n"
RECURSIVE CodeFrom(_, _)
CodeFrom(doc, i) ==
    IF i > Len(doc) THEN <<>>
    ELSE NumStr(i) \o <<":", " ">> \o doc[i] \o <<" ", "\n">> \o CodeFrom(doc, i + 1)

getVisibleCodeWithLineNumbers(doc) == CodeFrom(doc, 1)

\* splitCodeLines[i].replace(/^\d+:\s*/, '')
lineWithoutNumber(s) ==
    LET d == LeadingDigits(s)
    IN  IF d > 0 /\ d < Len(s) /\ s[d + 1] = ":"
        THEN LET rest == SubSeq(s, d + 2, Len(s))
             IN  SubSeq(rest, LeadingSpaces(rest) + 1, Len(rest))
        ELSE s

\* the same, taking the number after the one the line is prefixed with
matchLineNext(s, cur) ==
    IF LeadingDigits(s) > 0 THEN parseInt(SubSeq(s, 1, LeadingDigits(s))) + 1 ELSE cur

\* splitCodeLines[i].match(/^\d+/) followed by parseInt; cur when there is no match
matchLine(s, cur) ==
    IF LeadingDigits(s) > 0 THEN parseInt(SubSeq(s, 1, LeadingDigits(s))) ELSE cur

\* the loop over a non-numeric part p: i is the JavaScript (0-based) index
RECURSIVE KeyLoop(_, _, _, _)
KeyLoop(p, cur, scl, i) ==
    IF i >= Len(scl) THEN cur
    ELSE IF Includes(Trim(lineWithoutNumber(scl[i + 1])), p)
         THEN matchLine(scl[i + 1], cur)
         ELSE KeyLoop(p, cur, scl, i + 1)

\* lineWithoutNumber.match(/^(\s*)-/): the captured indentation, or no match
matchIndent(lwn) ==
    LET n == LeadingSpaces(lwn)
    IN  IF n < Len(lwn) /\ lwn[n + 1] = "-"
        THEN [ok |-> TRUE, ws |-> SubSeq(lwn, 1, n)]
        ELSE [ok |-> FALSE, ws |-> <<>>]

\* the loop over a numeric part n
RECURSIVE IndexLoop(_, _, _, _, _, _, _)
IndexLoop(n, cur, scl, i, numDashes, foundFirstElem, indentation) ==
    IF i >= Len(scl) THEN cur
    ELSE LET lwn == lineWithoutNumber(scl[i + 1])
         IN  IF StartsWith(Trim(lwn), <<"-">>)
             THEN LET m      == matchIndent(lwn)
                      found2 == foundFirstElem \/ m.ok
                      ind2   == IF ~foundFirstElem /\ m.ok THEN m.ws ELSE indentation
                  IN  IF numDashes = n /\ StartsWith(lwn, ind2 \o <<"-">>)
                      THEN matchLine(scl[i + 1], cur)
                      ELSE IndexLoop(n, cur, scl, i + 1, numDashes + 1, found2, ind2)
             ELSE IndexLoop(n, cur, scl, i + 1, numDashes, foundFirstElem, indentation)

\* the same, with both loops started at the top of the document (i = 0)
WalkPartFromTop(p, cur, scl) ==
    IF parseInt(p) = NaN THEN KeyLoop(p, cur, scl, 0)
    ELSE IndexLoop(parseInt(p), cur, scl, 0, 0, FALSE, <<>>)

\* one iteration of `for (const p of keyParts)`
WalkPart(p, cur, scl) ==
    IF parseInt(p) = NaN THEN KeyLoop(p, cur, scl, cur)
    ELSE IndexLoop(parseInt(p), cur, scl, cur, 0, FALSE, <<>>)

RECURSIVE WalkParts(_, _, _)
WalkParts(kps, cur, scl) ==
    IF kps = <<>> THEN cur
    ELSE WalkParts(Tail(kps), WalkPart(Head(kps), cur, scl), scl)

\* r.split(":")[0].split(".")
PathParts(r) == Split(Split(r, ":")[1], ".")

\* r.includes("missing")
Missing(r) == Includes(r, <<"m", "i", "s", "s", "i", "n", "g">>)

\* keyParts = parts, whatever the error text
KeyPartsNoDrop(r) == PathParts(r)

\* keyParts of one error: the parent path when the error text includes "missing"
KeyParts(r) ==
    IF Missing(r)
    THEN SubSeq(PathParts(r), 1, Len(PathParts(r)) - 1)
    ELSE PathParts(r)

\* parts.length === 0
DocumentLevelWhenEmpty(parts) == Len(parts) = 0

\* parts.length <= 2
DocumentLevelUpToTwo(parts) == Len(parts) <= 2

\* parts.length === 1: the error is about the document as a whole
DocumentLevel(parts) == Len(parts) = 1

\* codeWithLineNumbers.split('\n')
splitCodeLines(doc) == Split(getVisibleCodeWithLineNumbers(doc), "\n")

\* the line pushed for one error r
ResolveLine(r, doc) ==
    IF DocumentLevel(PathParts(r)) THEN 1
    ELSE WalkParts(KeyParts(r), 1, splitCodeLines(doc))

yamaleAnnotationLines(response, doc) ==
    [k \in 1..Len(response) |-> ResolveLine(response[k], doc)]

(***************************************************************************)
(* More string primitives: the linter output parsers                       *)
(***************************************************************************)
\* String.prototype.split with a string separator
RECURSIVE SplitStr(_, _)
SplitStr(s, sep) ==
    IF ~Includes(s, sep) THEN <<s>>
    ELSE LET k == CHOOSE i \in 0..(Len(s) - Len(sep)) :
                      /\ SubSeq(s, i + 1, i + Len(sep)) = sep
                      /\ \A j \in 0..(i - 1) : SubSeq(s, j + 1, j + Len(sep)) # sep
         IN  <<SubSeq(s, 1, k)>> \o SplitStr(SubSeq(s, k + Len(sep) + 1, Len(s)), sep)

\* Array.prototype.filter(line => line.trim() !== '')
RECURSIVE NonBlank(_)
NonBlank(ls) ==
    IF ls = <<>> THEN <<>>
    ELSE IF Trim(Head(ls)) = <<>> THEN NonBlank(Tail(ls))
         ELSE <<Head(ls)>> \o NonBlank(Tail(ls))

\* Array.prototype.filter(entry => entry !== '')
RECURSIVE NonEmpty(_)
NonEmpty(ls) ==
    IF ls = <<>> THEN <<>>
    ELSE IF Head(ls) = <<>> THEN NonEmpty(Tail(ls))
         ELSE <<Head(ls)>> \o NonEmpty(Tail(ls))

RECURSIVE TrailingDigits(_)
TrailingDigits(s) ==
    IF s = <<>> \/ ~IsDigit(s[Len(s)]) THEN 0
    ELSE 1 + TrailingDigits(SubSeq(s, 1, Len(s) - 1))

\* file.match(/:(\d+)$/): group 1, or the empty string when there is no match
matchLocator(file) ==
    LET n == TrailingDigits(file)
    IN  IF n > 0 /\ n < Len(file) /\ file[Len(file) - n] = ":"
        THEN SubSeq(file, Len(file) - n + 1, Len(file))
        ELSE <<>>

\* `${x}` of an array element that may be undefined
Undefined == <<"u", "n", "d", "e", "f", "i", "n", "e", "d">>

ElemOrUndefined(list, k) == IF k \in 1..Len(list) THEN list[k] ELSE Undefined

\* Array.prototype.slice(k)
Slice(list, k) == SubSeq(list, k + 1, Len(list))

\* the elements of a list, as a set
Range(list) == {list[k] : k \in 1..Len(list)}

(***************************************************************************)
(* The editors, and the texts the external collaborators answer with       *)
(***************************************************************************)
\* number of validate-and-lint invocations in one run of the model
MaxPasses == 2

Passes == 1..MaxPasses

\* the open vars files; B is one line shorter than A
Docs == {"A", "B"}

\* the editors an invocation may be started on: the second one may be started
\* on either file, the others are started on A
EditorsFor(p) == IF p = 2 THEN Docs ELSE {"A"}

DocText(d) ==
    IF d = "A"
    THEN << <<"k", ":">>, <<" ", "-", " ", "n">>, <<" ", "-", " ", "m">> >>
    ELSE << <<"x", ":">>, <<"n", ":">> >>

\* textEditor.document.uri.fsPath.split('.').pop().toLowerCase()
DocExtension(d) == IF d = "A" THEN "yml" ELSE "yaml"

\* a text of several lines, each ended by "\n"
RECURSIVE Text(_)
Text(ls) == IF ls = <<>> THEN <<>> ELSE Head(ls) \o <<"\n">> \o Text(Tail(ls))

ValidationFailedMark ==
    <<"V", "a", "l", "i", "d", "a", "t", "i", "o", "n", " ",
      "f", "a", "i", "l", "e", "d", "!">>

\* raw yamale errors, as the report prints them
ErrDoc    == <<"n", ":", " ", "b", ".">>
ErrKeyN   == <<"\t", "k", ".", "n", ":", " ", "b">>
ErrKeyN2  == <<"k", ".", "n", ":", " ", "c">>

FailureReport(errs) ==
    Text(<< <<"V">>, ValidationFailedMark, <<"E">> >> \o errs)

\* failure reports of up to MaxErrors error lines, one without an error line,
\* and one that ends at the mark
MaxErrors == 3

RECURSIVE ErrorSeqs(_)
ErrorSeqs(n) ==
    IF n = 0 THEN {<<>>}
    ELSE LET shorter == ErrorSeqs(n - 1)
         IN  shorter \cup { Append(es, e) : es \in {x \in shorter : Len(x) = n - 1},
                                            e \in {ErrDoc, ErrKeyN, ErrKeyN2} }

Reports ==
    { FailureReport(es) : es \in ErrorSeqs(MaxErrors) }
        \cup { Text(<< <<"V">>, ValidationFailedMark >>) }

\* the documents the reports are resolved against
ReportDocs == { DocText(d) : d \in Docs }

\* what `exec yamale` hands to its callback
YamaleResults ==
    { [stdout |-> Text(<< <<"V">>, <<"o", "k">> >>), stderr |-> <<>>],
      [stdout |-> <<>>, stderr |-> Text(<< <<"n", "o">> >>)],
      [stdout |-> FailureReport(<<ErrDoc, ErrKeyN, ErrKeyN2>>), stderr |-> <<>>] }

\* what the chat model request ends with: no model, a thrown request, a reply
\* that is no JSON text, a reply that is a JSON object and no list (none of its
\* numeric properties is defined), or a parsed list of suggestions
ChatReplies ==
    { [kind |-> "noModel", list |-> <<>>],
      [kind |-> "throws", list |-> <<>>],
      [kind |-> "badJSON", list |-> <<>>],
      [kind |-> "object", list |-> <<>>],
      [kind |-> "list", list |-> << <<"f">> >>],
      [kind |-> "list", list |-> << <<"f">>, <<"g">>, <<"h">>, <<"i">> >>] }

\* stdout of ansible-lint: a message line followed by a locator line; the
\* second output has two findings for line 2, the third an odd number of lines
AnsibleOutputs ==
    { <<>>,
      Text(<< <<"a">>, <<"v", ":", "2">>, <<"b">>, <<"v", ":", "2">> >>),
      Text(<< <<"a">>, <<"v", ":", "3">>, <<"c">> >>) }

\* a yamllint diagnostic of the inline form "<line>:<col>: [severity] message"
InlineDiagnostic == <<"3", ":", "5", ":", " ", "[", "e", "]", " ", "t">>

\* stdout of yamllint: the file line, then "  <line>:<col>  <level>  <message>";
\* the second output has two findings for line 2, the last the inline form
YamllintOutputs ==
    { <<>>,
      Text(<< <<"v">>, <<" ", " ", "2", ":", "1", " ", " ", "e", " ", " ", "w">>,
                       <<" ", " ", "2", ":", "3", " ", " ", "e", " ", " ", "u">> >>),
      Text(<< <<"v">>, <<" ", " ", "1", ":", "1", " ", " ", "e", " ", " ", "y">>,
                       <<" ", " ", "3", ":", "1", " ", " ", "e", " ", " ", "z">> >>),
      Text(<< <<"v">>, InlineDiagnostic >>) }

(***************************************************************************)
(* Inputs of yamaleAnnotationLines taken on its own                        *)
(***************************************************************************)
\* longest key path of a raw error
MaxPathLen == 3

\* the segments key paths are made of: two keys, two list indices
Segments == { <<"k">>, <<"n">>, <<"0">>, <<"1">> }

Paths == UNION { [1..n -> Segments] : n \in 1..MaxPathLen }

Messages ==
    { <<"b">>, <<"b", ".", "c">>, <<"m", "i", "s", "s", "i", "n", "g">> }

\* Array.prototype.join
RECURSIVE Join(_, _)
Join(parts, sep) ==
    IF parts = <<>> THEN <<>>
    ELSE IF Len(parts) = 1 THEN parts[1]
    ELSE parts[1] \o sep \o Join(Tail(parts), sep)

\* a raw yamale error: "<key path>: <message>"
RawError(path, msg) == Join(path, <<".">>) \o <<":", " ">> \o msg

RawErrors == { RawError(path, msg) : path \in Paths, msg \in Messages }

\* error lists of two entries, to see one error resolved after another
RawPairs ==
    LET few == { RawError(<< <<"n">> >>, <<"b", ".", "c">>),
                 RawError(<< <<"k">>, <<"1">> >>, <<"b">>),
                 RawError(<< <<"k">>, <<"n">> >>, <<"m", "i", "s", "s", "i", "n", "g">>) }
    IN  { <<e1, e2>> : e1 \in few, e2 \in few }

\* a document of four lines with a list of three items, and an error about it
DevicesDoc ==
    <<
      <<"d", "e", "v", "i", "c", "e", "s", ":">>,
      <<" ", " ", "-", " ", "n", "a", "m", "e", ":", " ", "s", "w", "1">>,
      <<" ", " ", "-", " ", "n", "a", "m", "e", ":", " ", "s", "w", "2">>,
      <<" ", " ", "-", " ", "t", "y", "p", "e", ":", " ", "x">>
    >>

DevicesError ==
    <<"d", "e", "v", "i", "c", "e", "s", ".", "1", ".", "t", "y", "p", "e",
      ":", " ", "R", "e", "q", "u", "i", "r", "e", "d", " ", "f", "i", "e",
      "l", "d", " ", "m", "i", "s", "s", "i", "n", "g">>

\* a document whose list has a nested list, and names k on lines 1 and 3
NestedDoc ==
    << <<"k", ":">>, <<"-", " ", "n", ":">>, <<" ", " ", "-", " ", "k">>, <<"-", " ", "y">> >>

\* raw errors that lack the colon
NoColonErrors == { <<"b">>, <<"k", ".", "n">>, <<"k", ".", "1", " ", "b">> }

\* document texts, line by line
ResolverDocs ==
    { << <<"k", ":">>, <<" ", "n", ":">>, <<" ", "-", " ", "x">>, <<" ", "-", " ", "y">> >>,
      << <<"x", ":">>, <<"n", ":">>, <<"k", ":">>, <<"-", " ", "n">> >>,
      << >>,
      NestedDoc,
      DevicesDoc }

\* raw errors whose message says "Missing" with a capital, and one whose key
\* path, not its message, has a segment named "missing"
CapitalMissing == <<"M", "i", "s", "s", "i", "n", "g">>

ClassificationErrors ==
    { RawError(<< <<"k">>, <<"n">> >>, CapitalMissing),
      RawError(<< <<"n">>, <<"k">>, <<"n">> >>, CapitalMissing),
      RawError(<< <<"m", "i", "s", "s", "i", "n", "g">>, <<"n">> >>, <<"b">>) }

\* raw errors whose path part is padded: a leading tab, as yamale indents its
\* report lines, and a space before the colon
PaddedErrors ==
    { <<"\t">> \o RawError(<< <<"k">>, <<"n">> >>, <<"b">>),
      <<"\t">> \o RawError(<< <<"n">>, <<"k">> >>, <<"b">>),
      <<"k", ".", "n", " ", ":", " ", "b">> }

\* raw errors about a key whose name begins with a digit
DigitLedErrors ==
    { RawError(<< <<"k">>, <<"1", "b">> >>, <<"c">>),
      RawError(<< <<"1", "b">>, <<"n">> >>, <<"c">>) }

\* the lists of raw errors yamaleAnnotationLines is given
ResolverInputs ==
    { <<e>> : e \in RawErrors \cup NoColonErrors \cup {DevicesError}
                      \cup ClassificationErrors \cup PaddedErrors
                      \cup DigitLedErrors } \cup RawPairs

(***************************************************************************)
(* State                                                                   *)
(***************************************************************************)
VARIABLES
    activeDecorations,      \* module-level list of decoration types (handles)
    decoratedLines,         \* module-level Set<number>
    live,                   \* decoration types created and not yet disposed
    pc,                     \* where each validate-and-lint invocation stands
    editor,                 \* the textEditor each invocation was started on
    outcome,                \* how the yamale step of each invocation ended
    formattedYamaleErrors,  \* yamale()'s local of that name
    prior,                  \* history: invocations finished when this one began
    wiped,                  \* history: <<q, p>>, q disposed a handle made by p
    blocked,                \* history: <<d, e>>, an apply on editor d was dropped
                            \*          on a line held by a handle made on editor e
    annotations,            \* the `annotations` argument of each invocation
    errors,                 \* yamaleAnnotationLines on its own: its `response`
    docLines,               \*   the text of its editor, line by line
    lines,                  \*   its local `lines`
    keyParts,               \*   the parts of the current error still to walk
    currentLine,            \*   its local `currentLine`
    at,                     \*   where it stands
    report,                 \* the yamale callback on its own: its `stdout`
    asked                   \*   yamale()'s local numSuggestions

overlayVars == <<activeDecorations, decoratedLines, live, pc, editor, outcome,
                 formattedYamaleErrors, prior, wiped, blocked, annotations>>

resolverVars == <<errors, docLines, lines, keyParts, currentLine, at, report, asked>>

vars == <<overlayVars, resolverVars>>

\* the module-level state together with the history, as the handlers thread it
Overlay ==
    [ad |-> activeDecorations, dl |-> decoratedLines, lv |-> live,
     wp |-> wiped, bl |-> blocked, threw |-> FALSE]

\* editor.document.lineAt(line - 1) throws outside the document
lineAtThrows(d, line) == line \notin 1..Len(DocText(d))

\* applyDecoration without the decoratedLines.has(line) return
applyDecorationNoSkip(o, d, line, suggestion, p, src) ==
    LET h == [pass |-> p, src |-> src, doc |-> d, line |-> line,
              text |-> suggestion, shown |-> ~lineAtThrows(d, line)]
    IN  [o EXCEPT !.ad = Append(@, h),
                  !.dl = @ \cup {line},
                  !.lv = @ \cup {h},
                  !.threw = lineAtThrows(d, line)]

\* applyDecoration(editor, line, suggestion), called by invocation p for src
applyDecoration(o, d, line, suggestion, p, src) ==
    IF line \in o.dl
    THEN [o EXCEPT !.bl = @ \cup {<<d, h.doc>> : h \in {g \in Range(o.ad) : g.line = line}}]
    ELSE LET h == [pass |-> p, src |-> src, doc |-> d, line |-> line,
                   text |-> suggestion, shown |-> ~lineAtThrows(d, line)]
         IN  [o EXCEPT !.ad = Append(@, h),
                       !.dl = @ \cup {line},
                       !.lv = @ \cup {h},
                       !.threw = lineAtThrows(d, line)]

\* the clearing loop without decoratedLines.clear()
clearAllKeepLines(o, p) ==
    [o EXCEPT !.ad = <<>>,
              !.lv = @ \ Range(o.ad),
              !.wp = @ \cup {<<p, h.pass>> : h \in Range(o.ad)}]

\* the clearing loop without decoration.dispose()
clearAllNoDispose(o, p) == [o EXCEPT !.ad = <<>>, !.dl = {}]

\* the clearing loop: dispose every active decoration, empty list and set
clearAll(o, p) ==
    [o EXCEPT !.ad = <<>>,
              !.dl = {},
              !.lv = @ \ Range(o.ad),
              !.wp = @ \cup {<<p, h.pass>> : h \in Range(o.ad)}]

(***************************************************************************)
(* parseChatResponse and the response string yamale() builds for it        *)
(***************************************************************************)
\* whether JSON.parse accepts `{ "line": n, "suggestion": "<text>" }` as the
\* regex /{[^}]*}/g cuts it out of the response
JsonParses(text) ==
    \A k \in 1..Len(text) : text[k] \notin {"\"", "\\", "}", "\n", "\r", "\t"}

\* response.includes('{}'): the "{}" of an empty line list, or inside a suggestion
ResponseIncludesEmpty(lineNumbers, list) ==
    \/ lineNumbers = <<>>
    \/ \E k \in 1..Len(lineNumbers) : Includes(ElemOrUndefined(list, k), <<"{", "}">>)

\* the while loop over the matched objects; a throw inside the try is caught
RECURSIVE ApplyObjects(_, _, _, _, _, _)
ApplyObjects(o, lineNumbers, list, k, d, p) ==
    IF k > Len(lineNumbers) THEN o
    ELSE LET text == ElemOrUndefined(list, k)
             o2   == IF JsonParses(text) /\ ~Includes(text, <<"{", "}">>)
                     THEN [applyDecoration(o, d, lineNumbers[k], text, p, "schema")
                             EXCEPT !.threw = FALSE]
                     ELSE o
         IN  ApplyObjects(o2, lineNumbers, list, k + 1, d, p)

\* parseChatResponse with the clearing loop after the applies
parseChatResponseClearLast(o, lineNumbers, list, d, p) ==
    IF ResponseIncludesEmpty(lineNumbers, list) /\ o.dl = {}
    THEN clearAll(o, p)
    ELSE clearAll(ApplyObjects(o, lineNumbers, list, 1, d, p), p)

parseChatResponse(o, lineNumbers, list, d, p) ==
    LET cleared == clearAll(o, p)
    IN  IF ResponseIncludesEmpty(lineNumbers, list) /\ cleared.dl = {}
        THEN cleared
        ELSE ApplyObjects(cleared, lineNumbers, list, 1, d, p)

(***************************************************************************)
(* The exec callbacks of yamale, ansible-lint and yamllint                 *)
(***************************************************************************)
\* stdout.split('\n').filter(line => line.trim() !== '')
OutputLines(stdout) == NonBlank(Split(stdout, "\n"))

\* the branch the yamale callback takes
YamaleOutcome(res) ==
    IF res.stderr # <<>> THEN "ToolError"
    ELSE IF Includes(res.stdout, ValidationFailedMark) THEN "SchemaFailure"
    ELSE "Success"

yamaleOutput(res) == Slice(OutputLines(res.stdout), 1)

\* numSuggestions started at 0
numSuggestionsFromZero(res) == Len(Slice(yamaleOutput(res), 1))

\* numSuggestions: -1, plus one for every line of yamaleOutput.slice(1)
numSuggestions(res) == Len(Slice(yamaleOutput(res), 1)) - 1

\* validationFailed && validationError: the report has a line after the mark
AnnotationsWanted(res) ==
    YamaleOutcome(res) = "SchemaFailure" /\ Slice(yamaleOutput(res), 1) # <<>>

\* what the yamale callback leaves in yamale()'s locals
YamaleLocals(res) ==
    [outcome |-> YamaleOutcome(res),
     formattedYamaleErrors |->
         IF YamaleOutcome(res) = "SchemaFailure" THEN Slice(yamaleOutput(res), 2) ELSE <<>>,
     wanted |-> AnnotationsWanted(res),
     numSuggestions |-> numSuggestions(res)]

\* the calls of one ansible-lint callback, in order: message line i, locator
\* line i+1; a missing locator line throws, a locator without ":<n>" is skipped
RECURSIVE AnsibleCalls(_, _)
AnsibleCalls(out, i) ==
    IF i >= Len(out) THEN <<>>
    ELSE IF i + 2 > Len(out) THEN << [throws |-> TRUE, line |-> 0, text |-> <<>>] >>
    ELSE LET m == matchLocator(out[i + 2])
         IN  (IF m # <<>>
              THEN << [throws |-> FALSE, line |-> parseInt(m), text |-> out[i + 1]] >>
              ELSE <<>>)
             \o AnsibleCalls(out, i + 2)

YamllintPrefix == <<"[", "y", "a", "m", "l", "l", "i", "n", "t", "]", ":", " ">>

\* the calls of one yamllint callback, from index 1 (after the file line)
RECURSIVE YamllintCalls(_, _)
YamllintCalls(out, i) ==
    IF i >= Len(out) THEN <<>>
    ELSE LET output == NonEmpty(SplitStr(out[i + 1], <<" ", " ">>))
         IN  IF output = <<>> THEN << [throws |-> TRUE, line |-> 0, text |-> <<>>] >>
             ELSE << [throws |-> FALSE,
                      line |-> parseInt(Split(output[1], ":")[1]),
                      text |-> YamllintPrefix \o ElemOrUndefined(output, 3)] >>
                  \o YamllintCalls(out, i + 1)

\* a linter loop: applyDecoration call by call, until one throws
RECURSIVE LintLoop(_, _, _, _, _, _)
LintLoop(o, calls, k, d, p, src) ==
    IF k > Len(calls) THEN o
    ELSE IF calls[k].throws THEN [o EXCEPT !.threw = TRUE]
    ELSE LET o2 == applyDecoration(o, d, calls[k].line, calls[k].text, p, src)
         IN  IF o2.threw THEN o2 ELSE LintLoop(o2, calls, k + 1, d, p, src)

\* the pure parts of the callbacks, per collaborator answer
YamaleParsed == [res \in YamaleResults |-> YamaleLocals(res)]

ErrorLists == {YamaleParsed[res].formattedYamaleErrors : res \in YamaleResults}

ResolvedLines ==
    [d \in Docs |-> [errs \in ErrorLists |-> yamaleAnnotationLines(errs, DocText(d))]]

AnsibleParsed == [stdout \in AnsibleOutputs |-> AnsibleCalls(OutputLines(stdout), 0)]

YamllintParsed == [stdout \in YamllintOutputs |-> YamllintCalls(OutputLines(stdout), 1)]

(***************************************************************************)
(* The validate-and-lint command, one action per awaited step              *)
(***************************************************************************)
Commit(o) ==
    /\ activeDecorations' = o.ad
    /\ decoratedLines' = o.dl
    /\ live' = o.lv
    /\ wiped' = o.wp
    /\ blocked' = o.bl

OverlayUnchanged == UNCHANGED <<activeDecorations, decoratedLines, live, wiped, blocked>>

\* the guards `if (annotations)` and `if (annotations && textEditor)`, ignored
AnnotationsAlways(p) == TRUE

\* the guards `if (annotations)` and `if (annotations && textEditor)` of the
\* callbacks; an invocation of the model always has its textEditor
AnnotationsOn(p) == annotations[p]

\* the linters run on the temporary file temp_vars_file.yml
LintEntryTemp == "ansible-lint"

\* ansibleYAMLLint runs its two linters on .yaml / .yml files only
LintEntry(d) == IF DocExtension(d) \in {"yaml", "yml"} THEN "ansible-lint" ELSE "done"

\* resolve() inside the `if (stdout)` block
AfterAnsibleLintInsideIf(stdout, threw) ==
    IF threw \/ stdout = <<>> THEN "stuck-ansible-lint" ELSE "yamllint"

\* resolve() follows the `if (stdout)` block of each linter callback: the next
\* step is reached unless the callback threw before it
AfterAnsibleLint(stdout, threw) == IF threw THEN "stuck-ansible-lint" ELSE "yamllint"

AfterYamllint(stdout, threw) == IF threw THEN "stuck-yamllint" ELSE "done"

Finished == {q \in Passes : pc[q] = "done"}

\* a handler that refuses to start while another invocation is in flight
MayStartSerialized(p) ==
    /\ pc[p] = "idle"
    /\ \A q \in Passes : q < p => pc[q] = "done"

\* the command handler has no guard: an invocation starts whatever the earlier
\* ones are doing (invocations are numbered in the order they start)
MayStart(p) ==
    /\ pc[p] = "idle"
    /\ \A q \in Passes : q < p => pc[q] # "idle"

\* the command is invoked on editor d; yamale() gets as far as exec
ValidateAndLint(p, d) ==
    /\ MayStart(p)
    /\ pc' = [pc EXCEPT ![p] = "yamale"]
    /\ editor' = [editor EXCEPT ![p] = d]
    /\ prior' = [prior EXCEPT ![p] = Finished]
    /\ annotations' = [annotations EXCEPT ![p] = TRUE]
    /\ OverlayUnchanged
    /\ UNCHANGED <<outcome, formattedYamaleErrors>>
    /\ UNCHANGED resolverVars

\* the chat /validate handler calls yamale(false, tempFilePath, textEditor,
\* valPath) on a temporary copy of the variables; d is the active editor
ValidateChat(p, d) ==
    /\ MayStart(p)
    /\ pc' = [pc EXCEPT ![p] = "yamale"]
    /\ editor' = [editor EXCEPT ![p] = d]
    /\ prior' = [prior EXCEPT ![p] = Finished]
    /\ annotations' = [annotations EXCEPT ![p] = FALSE]
    /\ OverlayUnchanged
    /\ UNCHANGED <<outcome, formattedYamaleErrors>>
    /\ UNCHANGED resolverVars

\* the chat /validate handler with no workflow or schema identified: yamale is
\* not called, ansibleYAMLLint(false, tempFilePath, textEditor) is
ValidateChatNoSchema(p, d) ==
    /\ MayStart(p)
    /\ pc' = [pc EXCEPT ![p] = LintEntryTemp]
    /\ editor' = [editor EXCEPT ![p] = d]
    /\ prior' = [prior EXCEPT ![p] = Finished]
    /\ annotations' = [annotations EXCEPT ![p] = FALSE]
    /\ outcome' = [outcome EXCEPT ![p] = "NoSchema"]
    /\ OverlayUnchanged
    /\ UNCHANGED formattedYamaleErrors
    /\ UNCHANGED resolverVars

\* the command is invoked with no workflow or schema identified: yamale()
\* returns [] before exec, and ansibleYAMLLint follows
ValidateAndLintNoSchema(p, d) ==
    /\ MayStart(p)
    /\ pc' = [pc EXCEPT ![p] = LintEntry(d)]
    /\ editor' = [editor EXCEPT ![p] = d]
    /\ prior' = [prior EXCEPT ![p] = Finished]
    /\ annotations' = [annotations EXCEPT ![p] = TRUE]
    /\ outcome' = [outcome EXCEPT ![p] = "NoSchema"]
    /\ OverlayUnchanged
    /\ UNCHANGED formattedYamaleErrors
    /\ UNCHANGED resolverVars

\* the exec callback of yamale and the code up to the next await
YamaleExit(p, res) ==
    /\ pc[p] = "yamale"
    /\ outcome' = [outcome EXCEPT ![p] = YamaleParsed[res].outcome]
    /\ formattedYamaleErrors' =
           [formattedYamaleErrors EXCEPT ![p] =
                IF AnnotationsOn(p) THEN YamaleParsed[res].formattedYamaleErrors ELSE @]
    /\ IF YamaleParsed[res].outcome = "Success" /\ AnnotationsOn(p)
       THEN Commit(clearAll(Overlay, p))
       ELSE OverlayUnchanged
    /\ pc' = [pc EXCEPT ![p] =
                 IF ~annotations[p] THEN LintEntryTemp
                 ELSE IF YamaleParsed[res].wanted THEN "chat"
                 ELSE LintEntry(editor[p])]
    /\ UNCHANGED <<editor, prior, annotations>>
    /\ UNCHANGED resolverVars

\* a chatResponse was received and JSON.parse(accumulatedChatResponse) returned
JsonParsed(reply) == reply.kind \in {"list", "object"}

\* the chat model request ends; when the reply parses, lines are resolved and
\* paired with accumulatedChatResponseList[i], then applied
ChatReply(p, reply) ==
    /\ pc[p] = "chat"
    /\ IF JsonParsed(reply)
       THEN Commit(parseChatResponse(Overlay,
                       ResolvedLines[editor[p]][formattedYamaleErrors[p]],
                       reply.list, editor[p], p))
       ELSE OverlayUnchanged
    /\ pc' = [pc EXCEPT ![p] = LintEntry(editor[p])]
    /\ UNCHANGED <<editor, outcome, formattedYamaleErrors, prior, annotations>>
    /\ UNCHANGED resolverVars

\* the exec callback of ansible-lint; a throw leaves its promise unsettled
AnsibleLintExit(p, stdout) ==
    /\ pc[p] = "ansible-lint"
    /\ LET o == IF stdout # <<>> /\ AnnotationsOn(p)
                THEN LintLoop(Overlay, AnsibleParsed[stdout], 1, editor[p], p, "ansible-lint")
                ELSE Overlay
       IN  /\ Commit(o)
           /\ pc' = [pc EXCEPT ![p] = AfterAnsibleLint(stdout, o.threw)]
    /\ UNCHANGED <<editor, outcome, formattedYamaleErrors, prior, annotations>>
    /\ UNCHANGED resolverVars

\* the exec callback of yamllint
YamllintExit(p, stdout) ==
    /\ pc[p] = "yamllint"
    /\ LET o == IF stdout # <<>> /\ AnnotationsOn(p)
                THEN LintLoop(Overlay, YamllintParsed[stdout], 1, editor[p], p, "yamllint")
                ELSE Overlay
       IN  /\ Commit(o)
           /\ pc' = [pc EXCEPT ![p] = AfterYamllint(stdout, o.threw)]
    /\ UNCHANGED <<editor, outcome, formattedYamaleErrors, prior, annotations>>
    /\ UNCHANGED resolverVars

InitOverlay ==
    /\ activeDecorations = <<>>
    /\ decoratedLines = {}
    /\ live = {}
    /\ pc = [p \in Passes |-> "idle"]
    /\ editor = [p \in Passes |-> "A"]
    /\ outcome = [p \in Passes |-> "none"]
    /\ formattedYamaleErrors = [p \in Passes |-> <<>>]
    /\ prior = [p \in Passes |-> {}]
    /\ wiped = {}
    /\ blocked = {}
    /\ annotations = [p \in Passes |-> TRUE]

Init ==
    /\ InitOverlay
    /\ errors = <<>> /\ docLines = <<>> /\ lines = <<>>
    /\ keyParts = <<>> /\ currentLine = 1 /\ at = "off"
    /\ report = <<>> /\ asked = -1

Next ==
    \/ \E p \in Passes : \E d \in EditorsFor(p) : ValidateAndLint(p, d)
    \/ \E p \in Passes : \E d \in EditorsFor(p) : ValidateAndLintNoSchema(p, d)
    \/ \E p \in Passes, res \in YamaleResults : YamaleExit(p, res)
    \/ \E p \in Passes, reply \in ChatReplies : ChatReply(p, reply)
    \/ \E p \in Passes, stdout \in AnsibleOutputs : AnsibleLintExit(p, stdout)
    \/ \E p \in Passes, stdout \in YamllintOutputs : YamllintExit(p, stdout)

Spec == Init /\ [][Next]_vars

(***************************************************************************)
(* The command together with the chat /validate handler: the invocation    *)
(* started last is the chat handler's, the earlier ones are the command's  *)
(***************************************************************************)
ChatPass == MaxPasses

NextChat ==
    \/ \E p \in Passes \ {ChatPass} : \E d \in EditorsFor(p) : ValidateAndLint(p, d)
    \/ \E p \in Passes \ {ChatPass} : \E d \in EditorsFor(p) : ValidateAndLintNoSchema(p, d)
    \/ \E d \in Docs : ValidateChat(ChatPass, d)
    \/ \E d \in Docs : ValidateChatNoSchema(ChatPass, d)
    \/ \E p \in Passes, res \in YamaleResults : YamaleExit(p, res)
    \/ \E p \in Passes, reply \in ChatReplies : ChatReply(p, reply)
    \/ \E p \in Passes, stdout \in AnsibleOutputs : AnsibleLintExit(p, stdout)
    \/ \E p \in Passes, stdout \in YamllintOutputs : YamllintExit(p, stdout)

SpecChat == Init /\ [][NextChat]_vars

(***************************************************************************)
(* yamaleAnnotationLines on its own, one action per loop iteration         *)
(***************************************************************************)
\* the same, with currentLine declared outside the loop over the errors
BeginErrorCursorShared ==
    /\ at = "error" /\ Len(lines) < Len(errors)
    /\ LET r == errors[Len(lines) + 1]
       IN  IF DocumentLevel(PathParts(r))
           THEN /\ lines' = Append(lines, 1)
                /\ UNCHANGED <<keyParts, currentLine, at>>
           ELSE /\ keyParts' = KeyParts(r)
                /\ at' = "part"
                /\ UNCHANGED <<lines, currentLine>>
    /\ UNCHANGED <<errors, docLines, overlayVars, report, asked>>

\* top of `for (const r of response)`: a document-level error pushes line 1,
\* any other error starts the walk of its key parts at line 1
BeginError ==
    /\ at = "error" /\ Len(lines) < Len(errors)
    /\ LET r == errors[Len(lines) + 1]
       IN  IF DocumentLevel(PathParts(r))
           THEN /\ lines' = Append(lines, 1)
                /\ UNCHANGED <<keyParts, currentLine, at>>
           ELSE /\ keyParts' = KeyParts(r)
                /\ currentLine' = 1
                /\ at' = "part"
                /\ UNCHANGED lines
    /\ UNCHANGED <<errors, docLines, overlayVars, report, asked>>

\* one iteration of `for (const p of keyParts)`
WalkStep ==
    /\ at = "part" /\ keyParts # <<>>
    /\ currentLine' = WalkPart(Head(keyParts), currentLine, splitCodeLines(docLines))
    /\ keyParts' = Tail(keyParts)
    /\ UNCHANGED <<errors, docLines, lines, at, overlayVars, report, asked>>

\* lines.push(currentLine) after the last part
PushLine ==
    /\ at = "part" /\ keyParts = <<>>
    /\ lines' = Append(lines, currentLine)
    /\ at' = "error"
    /\ UNCHANGED <<errors, docLines, keyParts, currentLine, overlayVars, report, asked>>

\* return lines
ReturnLines ==
    /\ at = "error" /\ Len(lines) = Len(errors)
    /\ at' = "returned"
    /\ UNCHANGED <<errors, docLines, lines, keyParts, currentLine, overlayVars, report, asked>>

InitResolver ==
    /\ InitOverlay
    /\ errors \in ResolverInputs
    /\ docLines \in ResolverDocs
    /\ lines = <<>> /\ keyParts = <<>> /\ currentLine = 1 /\ at = "error"
    /\ report = <<>> /\ asked = -1

NextResolver == BeginError \/ WalkStep \/ PushLine \/ ReturnLines

SpecResolver == InitResolver /\ [][NextResolver]_vars

(***************************************************************************)
(* From the failure report to the lines: the SchemaFailure branch of the   *)
(* yamale callback, then yamaleAnnotationLines on formattedYamaleErrors     *)
(***************************************************************************)
\* the yamale callback on a failure report: numSuggestions counted,
\* formattedYamaleErrors cut out; the resolver follows when a request is made
ReadReport ==
    /\ at = "report"
    /\ LET locals == YamaleLocals([stdout |-> report, stderr |-> <<>>])
       IN  /\ asked' = locals.numSuggestions
           /\ errors' = locals.formattedYamaleErrors
           /\ at' = IF locals.wanted THEN "error" ELSE "returned"
    /\ UNCHANGED <<docLines, lines, keyParts, currentLine, report, overlayVars>>

InitReport ==
    /\ InitOverlay
    /\ report \in Reports
    /\ docLines \in ReportDocs
    /\ errors = <<>> /\ lines = <<>> /\ keyParts = <<>> /\ currentLine = 1
    /\ asked = -1 /\ at = "report"

NextReport == ReadReport \/ BeginError \/ WalkStep \/ PushLine \/ ReturnLines

SpecReport == InitReport /\ [][NextReport]_vars

(***************************************************************************)
(* Vocabulary of the properties                                            *)
(***************************************************************************)
Linters == {"ansible-lint", "yamllint"}

\* the yamale step of p is over and the linters of p are running or over
PastYamale(p) ==
    pc[p] \in {"ansible-lint", "yamllint", "done", "stuck-ansible-lint", "stuck-yamllint"}

\* p ran with no other invocation overlapping it
Alone(p) == \A q \in Passes \ {p} : q \in prior[p] \/ pc[q] = "idle"

EmptyOverlay(ad, dl, lv) == ad = <<>> /\ dl = {} /\ lv = {}

(***************************************************************************)
(* C1: every pass clears at its start, so once a pass is done no handle    *)
(* made by a pass that had finished before it began is still live.         *)
(***************************************************************************)
C1_NoStaleMarkerAfterPass ==
    \A p \in Passes :
        pc[p] = "done" => \A h \in live : h.pass \notin prior[p]

(***************************************************************************)
(* C2: first writer wins. While a handle stays live (no clear in between), *)
(* no other handle appears for its line: later applies to that line are    *)
(* dropped and the line keeps the first text.                              *)
(***************************************************************************)
C2_FirstWriterWins ==
    [][\A h \in live :
          h \in live' => \A g \in live' : g.line = h.line => g = h]_vars

\* an apply was dropped on a line whose schema marker is still the one shown
C2_Witness ==
    \E p \in Passes :
        /\ pc[p] = "done"
        /\ <<editor[p], editor[p]>> \in blocked
        /\ \E h \in live : h.pass = p /\ h.src = "schema" /\ h.line = 2
        /\ \A g \in live : g.line = 2 => g.src = "schema"

(***************************************************************************)
(* C3: the line set and the live handles always have the same size (and    *)
(* the active list holds exactly the live handles); two schema errors that *)
(* resolve to one line give that line one marker.                          *)
(***************************************************************************)
C3_LinesMatchHandles ==
    /\ Cardinality(decoratedLines) = Cardinality(live)
    /\ Len(activeDecorations) = Cardinality(live)
    /\ Range(activeDecorations) = live
    /\ decoratedLines = {h.line : h \in live}

\* a failure report with two errors on line 2 was applied: line 2 has one marker
C3_Witness ==
    \E p \in Passes :
        LET ls == ResolvedLines[editor[p]][formattedYamaleErrors[p]]
        IN  /\ pc[p] = "ansible-lint"
            /\ \E i, j \in 1..Len(ls) : i # j /\ ls[i] = 2 /\ ls[j] = 2
            /\ Cardinality({h \in live : h.line = 2}) = 1
            /\ \E h \in live : h.line = 2 /\ h.pass = p /\ h.src = "schema"

(***************************************************************************)
(* C4: passes are not serialized. An invocation can always start while     *)
(* another is between its steps; the witness is a run in which the second  *)
(* pass disposed markers of the first and the first's later linter markers *)
(* ended in the overlay next to the second's.                              *)
(***************************************************************************)
C4_NotSerialized ==
    \A p \in Passes :
        (pc[p] = "idle" /\ \A q \in Passes : q < p => pc[q] # "idle")
            => ENABLED (\E d \in EditorsFor(p) : ValidateAndLint(p, d))

C4_Witness ==
    \E p, q \in Passes :
        /\ p < q /\ editor[p] = editor[q]
        /\ pc[p] = "done" /\ pc[q] = "done"
        /\ p \notin prior[q]
        /\ <<q, p>> \in wiped
        /\ \E h \in live : h.pass = p /\ h.src \in Linters
        /\ \E h \in live : h.pass = q /\ h.src = "schema"
        /\ \A h \in live : h.pass = p => h.src \in Linters

(***************************************************************************)
(* C5: a failing tool does not abort the pass. A yamale ToolError leaves   *)
(* the overlay alone and goes on to ansible-lint; an ansible-lint that     *)
(* gives no output is followed by yamllint; a yamllint that gives no       *)
(* output ends the pass.                                                   *)
(***************************************************************************)
C5_FailureDoesNotAbort ==
    [][\A p \in Passes :
          /\ \A res \in YamaleResults :
                 (YamaleParsed[res].outcome = "ToolError" /\ YamaleExit(p, res))
                     => pc'[p] = "ansible-lint" /\ OverlayUnchanged
          /\ AnsibleLintExit(p, <<>>) => pc'[p] = "yamllint" /\ OverlayUnchanged
          /\ YamllintExit(p, <<>>) => pc'[p] = "done" /\ OverlayUnchanged]_vars

\* a pass whose yamale had a ToolError and whose linters gave nothing is done
C5_Witness ==
    /\ pc[1] = "done" /\ outcome[1] = "ToolError"
    /\ pc[2] = "idle"
    /\ live = {}

C7_NoSelfWipe == \A p \in Passes : <<p, p>> \notin wiped

\* the pass cleared another pass's markers, then applied its own, which stay
C7_Witness ==
    \E p, q \in Passes :
        /\ p # q /\ <<p, q>> \in wiped
        /\ pc[p] = "done" /\ outcome[p] = "SchemaFailure"
        /\ \E h \in live : h.pass = p /\ h.src = "schema"
        /\ \E h \in live : h.pass = p /\ h.src \in Linters

(***************************************************************************)
(* C8: the clear is total and idempotent. From every overlay state it      *)
(* leaves an empty list, an empty line set and no live handle, without     *)
(* throwing; a second clear right after it changes nothing and disposes    *)
(* nothing.                                                                *)
(***************************************************************************)
C8_ClearAllTotalIdempotent ==
    \A p \in Passes :
        LET c  == clearAll(Overlay, p)
            cc == clearAll(c, p)
        IN  /\ EmptyOverlay(c.ad, c.dl, c.lv)
            /\ ~c.threw
            /\ cc = c

\* a Success callback has just cleared an overlay that held markers, one of
\* them on a line outside its document
C8_Witness ==
    \E p, q \in Passes :
        /\ pc[p] = "ansible-lint" /\ outcome[p] = "Success"
        /\ <<p, q>> \in wiped
        /\ pc[q] = "stuck-yamllint"
        /\ EmptyOverlay(activeDecorations, decoratedLines, live)

(***************************************************************************)
(* C9: the overlay is owned per document. A pass on one document disposes  *)
(* only markers made on that document, and an apply is dropped only for a  *)
(* marker of the same document.                                            *)
(***************************************************************************)
C9_OverlayPerDocument ==
    /\ \A w \in wiped : editor[w[1]] = editor[w[2]]
    /\ \A b \in blocked : b[1] = b[2]
    /\ \A p \in Passes :
           (pc[p] = "done" /\ Alone(p)) => \A h \in live : h.doc = editor[p]

(***************************************************************************)
(* C10: an error whose key path (the text before the first colon) has no   *)
(* dot is resolved to line 1, whatever the document and the message.       *)
(***************************************************************************)
BeforeColon(r) ==
    IF \E i \in 1..Len(r) : r[i] = ":"
    THEN SubSeq(r, 1, (CHOOSE i \in 1..Len(r) :
                           r[i] = ":" /\ \A j \in 1..(i - 1) : r[j] # ":") - 1)
    ELSE r

C10_SingleSegmentLineOne ==
    /\ \A i \in 1..Len(lines) :
           ~Includes(BeforeColon(errors[i]), <<".">>) => lines[i] = 1
    /\ at = "returned" => lines = yamaleAnnotationLines(errors, docLines)

\* "n: b.c" was resolved to line 1 of a document that has n on a later line
C10_Witness ==
    /\ at = "returned"
    /\ errors = << RawError(<< <<"n">> >>, <<"b", ".", "c">>) >>
    /\ KeyLoop(<<"n">>, 1, splitCodeLines(docLines), 1) > 1
    /\ lines = <<1>>

(***************************************************************************)
(* Vocabulary of the resolver properties                                   *)
(***************************************************************************)
\* the segments of the key path of r, as written
SegmentsOf(r) == Split(BeforeColon(r), ".")

\* a path without its final segment
Parent(path) == SubSeq(path, 1, Len(path) - 1)

\* the numbered lines the walk reads
Scl == splitCodeLines(docLines)

(***************************************************************************)
(* C11: an error of two or more segments that is classified missing is     *)
(* resolved to the line the walk of its path without the final segment     *)
(* ends on; an error not classified missing to the line the walk of all    *)
(* its segments ends on. While the parts are walked, the parts still to    *)
(* walk never include the dropped segment.                                 *)
(***************************************************************************)
C11_MissingWalksParent ==
    /\ \A i \in 1..Len(lines) :
           LET r == errors[i]
           IN  Len(SegmentsOf(r)) >= 2 =>
                   lines[i] = WalkParts(IF Missing(r) THEN Parent(SegmentsOf(r))
                                        ELSE SegmentsOf(r), 1, Scl)
    /\ at = "part" =>
           LET r == errors[Len(lines) + 1]
           IN  Len(keyParts) <= Len(SegmentsOf(r)) - (IF Missing(r) THEN 1 ELSE 0)

\* "n.k.n: missing" was resolved where the walk of n.k ends, which is not
\* where the walk of n.k.n ends
C11_Witness ==
    /\ at = "returned"
    /\ errors = << RawError(<< <<"n">>, <<"k">>, <<"n">> >>,
                            <<"m", "i", "s", "s", "i", "n", "g">>) >>
    /\ lines = << WalkParts(<< <<"n">>, <<"k">> >>, 1, Scl) >>
    /\ lines # << WalkParts(<< <<"n">>, <<"k">>, <<"n">> >>, 1, Scl) >>

(***************************************************************************)
(* C12: for the four-line devices document and the error                   *)
(* "devices.1.type: Required field missing" the walked path is devices.1   *)
(* and the resolved line is 3.                                             *)
(***************************************************************************)
DevicesPath ==
    << <<"d", "e", "v", "i", "c", "e", "s">>, <<"1">> >>

C12_DevicesScenario ==
    (errors = <<DevicesError>> /\ docLines = DevicesDoc) =>
        /\ at = "part" =>
               \E n \in 0..Len(DevicesPath) :
                   keyParts = SubSeq(DevicesPath, n + 1, Len(DevicesPath))
        /\ at = "returned" => lines = <<3>>

C12_Witness ==
    /\ errors = <<DevicesError>> /\ docLines = DevicesDoc
    /\ at = "returned"
    /\ lines = <<3>>

(***************************************************************************)
(* C13, as stated: whenever the adjusted key path (the final segment       *)
(* dropped for a missing error) has one segment or none, the error is      *)
(* resolved to line 1.                                                     *)
(***************************************************************************)
AdjustedPath(r) ==
    IF Missing(r) /\ Len(SegmentsOf(r)) >= 2 THEN Parent(SegmentsOf(r)) ELSE SegmentsOf(r)

C13_AdjustedShortIsLineOne ==
    \A i \in 1..Len(lines) : Len(AdjustedPath(errors[i])) <= 1 => lines[i] = 1

(***************************************************************************)
(* C13, amended: the shortcut to line 1 is taken on the key path as        *)
(* written. A path of one segment is resolved to line 1 and its parts are  *)
(* never walked; a path of two segments with a missing message is resolved *)
(* to the line the scan for its first segment ends on.                     *)
(***************************************************************************)
C13_ShortcutOnWrittenPath ==
    /\ \A i \in 1..Len(lines) :
           LET r == errors[i]
           IN  /\ Len(SegmentsOf(r)) = 1 => lines[i] = 1
               /\ (Len(SegmentsOf(r)) = 2 /\ Missing(r)) =>
                      lines[i] = WalkPart(SegmentsOf(r)[1], 1, Scl)
    /\ at = "part" => Len(SegmentsOf(errors[Len(lines) + 1])) >= 2

\* "k.n: missing" was resolved to line 3, where the scan for k ended
C13_Witness ==
    /\ at = "returned"
    /\ errors = << RawError(<< <<"k">>, <<"n">> >>,
                            <<"m", "i", "s", "s", "i", "n", "g">>) >>
    /\ lines = <<3>>

(***************************************************************************)
(* C14: a missing error whose path has two segments, the first a key, is   *)
(* resolved by one scan for that key: to the first line of the document    *)
(* whose trimmed text contains it, and to line 1 when no line contains it. *)
(***************************************************************************)
\* a segment that is not a base-10 integer
IsKey(seg) == seg = <<>> \/ \E k \in 1..Len(seg) : ~IsDigit(seg[k])

\* the lines of the document, from line `from` on, whose trimmed text contains key
LinesContaining(key, from) ==
    { k \in from..Len(docLines) : Includes(Trim(docLines[k]), key) }

Least(S) == CHOOSE k \in S : \A j \in S : k <= j

C14_OneKeyScan ==
    \A i \in 1..Len(lines) :
        LET r   == errors[i]
            key == SegmentsOf(r)[1]
        IN  (Len(SegmentsOf(r)) = 2 /\ Missing(r) /\ IsKey(key)) =>
                lines[i] = IF LinesContaining(key, 1) = {} THEN 1
                           ELSE Least(LinesContaining(key, 1))

(***************************************************************************)
(* C15: a raw error with no colon is resolved to line 1, on every          *)
(* document, dots or not.                                                  *)
(***************************************************************************)
HasColon(r) == \E k \in 1..Len(r) : r[k] = ":"

C15_NoColonIsLineOne ==
    \A i \in 1..Len(lines) : ~HasColon(errors[i]) => lines[i] = 1

(***************************************************************************)
(* C16: suggestions and resolved lines are paired up to the shorter list.  *)
(* No schema marker carries a suggestion beyond the number of errors, and  *)
(* no schema marker is made for an error that has no suggestion: none      *)
(* shows the placeholder text of an absent list element.                   *)
(***************************************************************************)
\* the suggestions of the modelled replies that lie beyond the last error of
\* the failure report
SurplusSuggestions ==
    LET errs == CHOOSE e \in ErrorLists : e # <<>>
    IN  { reply.list[k] : reply \in {c \in ChatReplies : Len(c.list) > Len(errs)},
                          k \in (Len(errs) + 1)..(Len(errs) + 1) }

C16_PairedToShorterList ==
    \A h \in live :
        h.src = "schema" => h.text # Undefined /\ h.text \notin SurplusSuggestions

(***************************************************************************)
(* C17: a linter finding for a line that holds a marker is skipped. A      *)
(* linter step disposes and replaces nothing; every marker it adds is on a *)
(* line that held none, and carries the first finding its tool reported    *)
(* for that line. Within a pass the schema markers come first, then those  *)
(* of ansible-lint, then those of yamllint.                                *)
(***************************************************************************)
\* the text of the first call of a linter callback for a line
FirstFinding(calls, line) ==
    calls[Least({k \in 1..Len(calls) : ~calls[k].throws /\ calls[k].line = line})].text

LinterStepAdds(p, tool, calls) ==
    /\ live \subseteq live'
    /\ \A g \in live' \ live :
           /\ g.line \notin decoratedLines
           /\ g.pass = p /\ g.src = tool
           /\ g.text = FirstFinding(calls, g.line)

C17_LinterFindingSkipped ==
    /\ [][\A p \in Passes :
             pc'[p] # pc[p] =>
                 /\ \A stdout \in AnsibleOutputs :
                        AnsibleLintExit(p, stdout) =>
                            LinterStepAdds(p, "ansible-lint", AnsibleParsed[stdout])
                 /\ \A stdout \in YamllintOutputs :
                        YamllintExit(p, stdout) =>
                            LinterStepAdds(p, "yamllint", YamllintParsed[stdout])]_vars
    /\ [](\A p \in Passes : \A h \in live :
             h.pass = p =>
                 /\ h.src \in Linters => PastYamale(p)
                 /\ h.src = "yamllint" =>
                        pc[p] \in {"yamllint", "done", "stuck-yamllint"})

\* a pass on its own: schema suggestions hold lines 1 and 2, yamllint
\* reported lines 1 and 3, and only its finding for line 3 was added
C17_Witness ==
    /\ pc[1] = "done" /\ pc[2] = "idle"
    /\ outcome[1] = "SchemaFailure"
    /\ <<"A", "A">> \in blocked
    /\ \E h \in live : h.line = 2 /\ h.src = "schema"
    /\ \E h \in live : h.line = 1 /\ h.src = "schema"
    /\ \E h \in live : h.line = 3 /\ h.src = "yamllint"
                         /\ h.text = YamllintPrefix \o <<"z">>
    /\ Cardinality(live) = 3

(***************************************************************************)
(* C18: a yamllint diagnostic is shown at its reported line with the text  *)
(* "[yamllint]: " followed by its message; so every yamllint marker        *)
(* carries the prefix and one of the reported messages, the one of the     *)
(* inline diagnostic "3:5: [e] t" included.                                *)
(***************************************************************************)
\* the messages of the modelled yamllint diagnostics
YamllintMessages == { <<"w">>, <<"u">>, <<"y">>, <<"z">>, <<"t">> }

C18_PrefixedMessageAtLine ==
    \A h \in live :
        h.src = "yamllint" =>
            \E m \in YamllintMessages : h.text = YamllintPrefix \o m

(***************************************************************************)
(* Vocabulary of the scan properties: the walk seen from a state in which  *)
(* some parts of the current error have been walked                        *)
(***************************************************************************)
\* the parts of the current error walked so far
Walked ==
    LET path == AdjustedPath(errors[Len(lines) + 1])
    IN  SubSeq(path, 1, Len(path) - Len(keyParts))

\* the part walked last, and the cursor it was walked from
LastPart == Walked[Len(Walked)]

CursorBefore == WalkParts(Parent(Walked), 1, Scl)

JustWalked == at = "part" /\ Walked # <<>>

(***************************************************************************)
(* C19: the scan for a key segment is inclusive of the cursor. After a key *)
(* segment is walked the cursor is the first line, from the line the       *)
(* cursor was on to the end of the document, whose trimmed text contains   *)
(* the key; it stays where it was when there is none.                      *)
(***************************************************************************)
C19_KeyScanInclusive ==
    (JustWalked /\ IsKey(LastPart)) =>
        currentLine = IF LinesContaining(LastPart, CursorBefore) = {} THEN CursorBefore
                      ELSE Least(LinesContaining(LastPart, CursorBefore))

(***************************************************************************)
(* C20: an index segment n counts, from 0, the list-item lines that have   *)
(* exactly the leading whitespace of the first list-item line found from   *)
(* the cursor on, and moves the cursor to the line at which the count is   *)
(* n; list items at another indentation are not counted. Stated for walks  *)
(* whose cursor is not itself on a list item, where "from the cursor" and  *)
(* "after the cursor" are the same lines.                                  *)
(***************************************************************************)
IsListItem(k) == StartsWith(Trim(docLines[k]), <<"-">>)

LeadingWhitespace(k) == SubSeq(docLines[k], 1, LeadingSpaces(docLines[k]))

\* the list-item lines from line `from` on
ListItems(from) == { k \in from..Len(docLines) : IsListItem(k) }

\* the list-item lines from `from` on that have the reference indentation
CountedItems(from) ==
    IF ListItems(from) = {} THEN {}
    ELSE LET ref == LeadingWhitespace(Least(ListItems(from)))
         IN  { k \in ListItems(from) : LeadingWhitespace(k) = ref }

\* the line at which the count equals n, or `from` when the count stays below n
CountedItem(n, from) ==
    LET at_n == { k \in CountedItems(from) :
                      Cardinality({j \in CountedItems(from) : j < k}) = n }
    IN  IF at_n = {} THEN from ELSE Least(at_n)

C20_IndexCountsSameIndentation ==
    (JustWalked /\ ~IsKey(LastPart)
        /\ CursorBefore \in 1..Len(docLines) /\ ~IsListItem(CursorBefore)) =>
        currentLine = CountedItem(parseInt(LastPart), CursorBefore)

(***************************************************************************)
(* C21: the missing classification looks at the message only (the text     *)
(* after the first colon) and ignores letter case. So the parts walked for *)
(* an error of two or more segments are its path without the final segment *)
(* exactly when its message contains "missing" in some letter case.        *)
(***************************************************************************)
MessageOf(r) == IF HasColon(r) THEN SubSeq(r, Len(BeforeColon(r)) + 2, Len(r)) ELSE <<>>

\* String.prototype.toLowerCase, on the letters of "MISSING"
LowerChar(c) ==
    CASE c = "M" -> "m" [] c = "I" -> "i" [] c = "S" -> "s"
      [] c = "N" -> "n" [] c = "G" -> "g" [] OTHER -> c

Lower(t) == [k \in 1..Len(t) |-> LowerChar(t[k])]

MessageSaysMissing(r) ==
    Includes(Lower(MessageOf(r)), <<"m", "i", "s", "s", "i", "n", "g">>)

\* x is a tail of y
IsTail(x, y) == Len(x) <= Len(y) /\ x = SubSeq(y, Len(y) - Len(x) + 1, Len(y))

C21_ClassifiedByMessage ==
    (at = "part" /\ HasColon(errors[Len(lines) + 1])) =>
        LET r == errors[Len(lines) + 1]
        IN  IsTail(keyParts, IF MessageSaysMissing(r) THEN Parent(SegmentsOf(r))
                             ELSE SegmentsOf(r))

(***************************************************************************)
(* C22: the path part is trimmed before use. An error resolves to the line *)
(* that the same error resolves to once the whitespace around its path     *)
(* part is removed.                                                        *)
(***************************************************************************)
\* r with the whitespace around its path part removed
TrimmedPath(r) ==
    IF HasColon(r) THEN Trim(BeforeColon(r)) \o <<":">> \o MessageOf(r) ELSE Trim(r)

C22_PathIsTrimmed ==
    \A i \in 1..Len(lines) :
        lines[i] = ResolveLine(TrimmedPath(errors[i]), docLines)

(***************************************************************************)
(* C23: the cursor is not shared across the errors of one call. The line   *)
(* returned for each error of a list is the line returned when that error  *)
(* is resolved alone against the same document, whatever errors stand      *)
(* before it in the list.                                                  *)
(***************************************************************************)
ResolvedAlone(r) == yamaleAnnotationLines(<<r>>, docLines)[1]

C23_CursorPerError ==
    \A i \in 1..Len(lines) : lines[i] = ResolvedAlone(errors[i])

\* a list of two errors is resolved; the first ends below line 1, the second is
\* walked from line 1 again and ends above the first
C23_Witness ==
    /\ at = "returned" /\ Len(errors) = 2
    /\ ~DocumentLevel(PathParts(errors[2]))
    /\ lines[1] > 1 /\ lines[2] < lines[1]

(***************************************************************************)
(* C24: within the resolution of one key path the cursor never moves       *)
(* backward. Every step that walks one segment, a key or an index, found   *)
(* or not, leaves the cursor at or after the line it was on.               *)
(***************************************************************************)
C24_CursorMonotone ==
    [][(at = "part" /\ at' = "part") => currentLine' >= currentLine]_vars

\* the second segment of a path has been walked and moved the cursor forward
\* from a line below line 1
C24_Witness ==
    /\ JustWalked /\ Len(Walked) >= 2
    /\ CursorBefore > 1 /\ currentLine > CursorBefore

(***************************************************************************)
(* C25: a segment that cannot be resolved never aborts the resolution.     *)
(* When no line from the cursor on contains a key segment, or the list     *)
(* items from the cursor on are too few to reach an index, the cursor      *)
(* stays where it was. The segments after it are walked from that cursor:  *)
(* a path whose first segment cannot be resolved ends where the rest of    *)
(* the path ends, and a path none of whose segments can be resolved ends   *)
(* on line 1. Every error of the list gets its line.                       *)
(***************************************************************************)
\* nothing from line `from` on can resolve the segment
Unresolvable(seg, from) ==
    IF IsKey(seg) THEN LinesContaining(seg, from) = {}
    ELSE Cardinality(ListItems(from)) <= DecVal(seg)

C25_UnresolvableKeepsCursor ==
    /\ (JustWalked /\ HasColon(errors[Len(lines) + 1])
           /\ Unresolvable(LastPart, CursorBefore)) => currentLine = CursorBefore
    /\ \A i \in 1..Len(lines) :
           LET path == AdjustedPath(errors[i])
           IN  HasColon(errors[i]) =>
                 /\ (\A k \in 1..Len(path) : Unresolvable(path[k], 1)) => lines[i] = 1
                 /\ (Len(PathParts(errors[i])) >= 2 /\ path # <<>>
                        /\ Unresolvable(path[1], 1)) =>
                        lines[i] = WalkParts(Tail(path), 1, Scl)
    /\ at = "returned" => Len(lines) = Len(errors)

(***************************************************************************)
(* C30: for a document of at least one line, every line number the         *)
(* resolver returns, and every line the cursor is on during the walk, is   *)
(* a line of the document: between 1 and the number of lines.              *)
(***************************************************************************)
C30_LinesWithinDocument ==
    Len(docLines) >= 1 =>
        /\ \A i \in 1..Len(lines) : lines[i] \in 1..Len(docLines)
        /\ currentLine \in 1..Len(docLines)

\* the resolver has returned, and one error was walked to the last line of a
\* document of several lines
C30_Witness ==
    /\ at = "returned" /\ Len(docLines) > 1
    /\ \E i \in 1..Len(lines) :
           /\ ~DocumentLevel(PathParts(errors[i]))
           /\ lines[i] = Len(docLines)

(***************************************************************************)
(* C27: every annotation pass terminates. Whatever the linters print, the  *)
(* completion of each linter step is signalled: no pass is ever left       *)
(* waiting on a linter step whose callback ended without signalling.       *)
(***************************************************************************)
C27_LinterStepsSignalled ==
    \A p \in Passes : pc[p] \notin {"stuck-ansible-lint", "stuck-yamllint"}

(***************************************************************************)
(* C28: when the suggestion collaborator fails during a SchemaFailure pass *)
(* (no chat model, the request throws, or the reply is not a JSON list),   *)
(* the schema step leaves the overlay as it was: neither the step that     *)
(* reads the failure report nor the step that ends the request disposes or *)
(* adds a marker.                                                          *)
(***************************************************************************)
C28_CollaboratorFailureKeepsOverlay ==
    [][\A p \in Passes :
          /\ \A res \in YamaleResults :
                 (YamaleExit(p, res) /\ outcome'[p] = "SchemaFailure") =>
                     UNCHANGED <<activeDecorations, decoratedLines, live>>
          /\ \A reply \in ChatReplies :
                 (reply.kind # "list" /\ ChatReply(p, reply)) =>
                     UNCHANGED <<activeDecorations, decoratedLines, live>>]_vars

(***************************************************************************)
(* C29: validation run with annotations disabled (the chat /validate path) *)
(* leaves the overlay unchanged. Every step of an invocation made with     *)
(* annotations = false, whatever yamale and the linters answer, creates no *)
(* marker, disposes none and leaves the line set as it was.                *)
(***************************************************************************)
C29_NoAnnotationsNoOverlayChange ==
    [][\A p \in Passes :
          (~annotations'[p] /\ pc'[p] # pc[p]) =>
              UNCHANGED <<activeDecorations, decoratedLines, live>>]_vars

\* the chat invocation began after an annotating one had finished and left
\* markers; yamale succeeded, both linters ran, and the markers are all there
C29_Witness ==
    /\ pc[ChatPass] = "done" /\ ~annotations[ChatPass]
    /\ outcome[ChatPass] = "Success"
    /\ prior[ChatPass] = Passes \ {ChatPass}
    /\ live # {} /\ Len(activeDecorations) = Cardinality(live)
    /\ decoratedLines # {}

(***************************************************************************)
(* C26: for a failure report with at least one error line, the number of   *)
(* suggestions asked of the language model is the number of raw errors     *)
(* handed to the resolver, which are the error lines of the report in      *)
(* order, without the header and summary lines; and the resolver returns   *)
(* one line per raw error, in the errors' order.                           *)
(***************************************************************************)
\* the error lines of a failure report: its lines other than the "Validating"
\* line, the "Validation failed!" mark and the "Error validating" header
ReportErrors ==
    LET IsErrorLine(l) == l \notin { <<"V">>, ValidationFailedMark, <<"E">> }
    IN  SelectSeq(OutputLines(report), IsErrorLine)

C26_CountMatchesErrors ==
    (at # "report" /\ ReportErrors # <<>>) =>
        /\ errors = ReportErrors
        /\ asked = Len(errors)
        /\ Len(lines) <= Len(errors)
        /\ \A i \in 1..Len(lines) : lines[i] = ResolvedAlone(errors[i])
        /\ at = "returned" => Len(lines) = Len(errors)

\* a report of three error lines was read and resolved to three lines
C26_Witness ==
    /\ at = "returned" /\ Len(ReportErrors) = 3
    /\ asked = 3 /\ Len(lines) = 3
    /\ lines[1] # lines[2]

====
